---- MODULE Spec2Model ----
(***************************************************************************)
(* Model of bmt::tree_t<uint64_t> (src/bitmap_tree.hpp), the instantiation *)
(* every program of the repository uses.  The tree is a heap of nodes      *)
(* addressed by pointers; the four public operations and the private       *)
(* move_max_size are translated from their code.                           *)
(*                                                                         *)
(* Scaling.  The word type has 64 bits in the code and so has the          *)
(* branching factor.  The model keeps the structure and scales the         *)
(* numbers: a node has bits_per_word branches of bits_per_word bits, and   *)
(* the u64_t counters (idx, current_max_size, levels, current_level) are   *)
(* U64Bits wide.  As in the code, the widest capacity the counter can hold *)
(* (64^10 = 2^60 there, 2^4 here) is smaller than the largest index, and   *)
(* one more multiplication by the branching factor wraps to 0.             *)
(***************************************************************************)
EXTENDS Integers, Sequences, FiniteSets, TLC

\* ------------------------------------------------------------------ sizes
\* node_t<T>::bits_per_word = sizeof(T) * 8 (scaled)
bits_per_word == 2
\* node_t<T>::branching_factor = bits_per_word
branching_factor == bits_per_word
\* width of u64_t (scaled)
U64Bits == 5
\* the model stops following the growth loop once levels reaches MaxLevels
MaxLevels == 5
\* the model accepts allocate_at while fewer than MaxAllocated slots are taken
MaxAllocated == 5

RECURSIVE Pow(_, _)
Pow(b, e) == IF e = 0 THEN 1 ELSE b * Pow(b, e - 1)

\* u64_t arithmetic is modulo 2^64
U64Mod == Pow(2, U64Bits)
U64(n) == n % U64Mod
\* T(x) for T = uint64_t
TWord(n) == n % U64Mod
\* every value an index can take
Indices == 0 .. (U64Mod - 1)
\* the indices the calls are made with: the first leaf (0..3), each capacity
\* the tree passes through (4, 8) and the last index below it (3, 7), one
\* index inside the second growth (13), the least index the widest
\* capacity does not cover (16) and the largest index (31)
Inputs == {0, 1, 2, 3, 4, 7, 8, 13, 16, 31}
Branches == 0 .. (branching_factor - 1)

\* ~T(0) and ~T(1) on a word of bits_per_word bits
AllOnes == Pow(2, bits_per_word) - 1
NotOne == Pow(2, bits_per_word) - 2

\* a field malloc left unwritten; a null pointer
Undef == -1
Null == 0

\* ------------------------------------------------------------- bit helpers
test_bit(n, bit) == ((n \div Pow(2, bit)) % 2) = 1
set_bit(n, bit) == IF test_bit(n, bit) THEN n ELSE n + Pow(2, bit)
clear_bit_kept(n, bit) == n
clear_bit(n, bit) == IF test_bit(n, bit) THEN n - Pow(2, bit) ELSE n

\* ------------------------------------------------------------------ nodes
\* node_t: bits and branches share storage (a union); the member that is
\* not the active one is Undef
UndefArray == [i \in Branches |-> Undef]
\* a node fresh from malloc on which init_leaf() has run
init_leaf == [is_leaf |-> TRUE, unset_branches |-> AllOnes,
              allocated_branches |-> Undef,
              bits |-> [i \in Branches |-> AllOnes], branches |-> UndefArray]
\* a node fresh from malloc made internal by the descent of allocate_at
new_internal == [is_leaf |-> FALSE, unset_branches |-> Undef,
                 allocated_branches |-> 0,
                 bits |-> UndefArray, branches |-> UndefArray]
\* the new root move_max_size wraps around old_root
new_root_unmarked(old_root, old_unset) ==
    [is_leaf |-> FALSE, unset_branches |-> IF old_unset = AllOnes THEN AllOnes ELSE NotOne,
     allocated_branches |-> 0,
     bits |-> UndefArray, branches |-> [i \in Branches |-> IF i = 0 THEN old_root ELSE Undef]]
new_root(old_root, old_unset) ==
    [is_leaf |-> FALSE, unset_branches |-> IF old_unset = AllOnes THEN AllOnes ELSE NotOne,
     allocated_branches |-> 1,
     bits |-> UndefArray, branches |-> [i \in Branches |-> IF i = 0 THEN old_root ELSE Undef]]

\* stack is the std::vector of ~tree_t(); freed lists the nodes handed to
\* free(), in order
VARIABLES heap, root, levels, allocated_resources, current_max_size, pc, last,
          stack, freed

vars == <<heap, root, levels, allocated_resources, current_max_size, pc, last,
          stack, freed>>

\* ------------------------------------------------------------ is_allocated
\* the same loop with an unmaterialized branch reported as allocated
RECURSIVE is_allocated_loop_virgin(_, _, _, _)
is_allocated_loop_virgin(h, current_node, subtree_size, idx) ==
    LET ss == subtree_size \div branching_factor
        bucket == idx \div ss
        i2 == idx % ss
        node == h[current_node]
    IN  IF node.is_leaf
        THEN ~test_bit(node.bits[bucket], i2)
        ELSE IF ~test_bit(node.allocated_branches, bucket)
             THEN TRUE
             ELSE is_allocated_loop_virgin(h, node.branches[bucket], ss, i2)

RECURSIVE is_allocated_loop(_, _, _, _)
is_allocated_loop(h, current_node, subtree_size, idx) ==
    LET ss == subtree_size \div branching_factor
        bucket == idx \div ss
        i2 == idx % ss
        node == h[current_node]
    IN  IF node.is_leaf
        THEN ~test_bit(node.bits[bucket], i2)
        ELSE IF ~test_bit(node.allocated_branches, bucket)
             THEN FALSE
             ELSE is_allocated_loop(h, node.branches[bucket], ss, i2)

is_allocated_in(h, r, cap, idx) ==
    IF idx >= cap THEN FALSE ELSE is_allocated_loop(h, r, cap, idx)

is_allocated(idx) == is_allocated_in(heap, root, current_max_size, idx)

\* the indices is_allocated reports as allocated
AllocatedSet == {i \in Indices : is_allocated(i)}

\* ------------------------------------------------------------- allocate_at
\* what the leaf step adds to allocated_resources: 1 when the bit was set
\* (the index was free), 0 otherwise
leaf_inc_always(word, bit) == 1
leaf_inc_never(word, bit) == 0
leaf_inc(word, bit) == IF test_bit(word, bit) THEN 1 ELSE 0

\* lines 224-236: the heap once branch bucket of current_node points at the
\* freshly made node
materialize_eager(h, current_node, bucket, node) ==
    LET sibling == (bucket + 1) % branching_factor
        h1 == Append([h EXCEPT ![current_node].branches[bucket] = Len(h) + 1,
                               ![current_node].allocated_branches = set_bit(@, bucket)],
                     node)
    IN  IF test_bit(h1[current_node].allocated_branches, sibling)
        THEN h1
        ELSE Append([h1 EXCEPT ![current_node].branches[sibling] = Len(h) + 2,
                               ![current_node].allocated_branches = set_bit(@, sibling)],
                    node)
materialize(h, current_node, bucket, node) ==
    Append([h EXCEPT ![current_node].branches[bucket] = Len(h) + 1,
                     ![current_node].allocated_branches = set_bit(@, bucket)],
           node)

\* the descent loop of allocate_at; mallocs is the number of malloc calls
\* that still succeed, the next one returns a null pointer, which the code
\* dereferences
RECURSIVE allocate_at_loop(_, _, _, _, _, _)
allocate_at_loop(h, current_node, subtree_size, idx, current_level, mallocs) ==
    LET ss == subtree_size \div branching_factor
        bucket == idx \div ss
        i2 == idx % ss
        node == h[current_node]
        next_level == U64(current_level + U64Mod - 1)
    IN  IF node.is_leaf
        THEN [heap |-> [h EXCEPT ![current_node].bits[bucket] = clear_bit(@, i2)],
              inc |-> leaf_inc(node.bits[bucket], i2),
              crashed |-> FALSE]
        ELSE IF ~test_bit(node.allocated_branches, bucket)
             THEN IF mallocs = 0
                  THEN [heap |-> [h EXCEPT ![current_node].branches[bucket] = Null,
                                           ![current_node].allocated_branches = set_bit(@, bucket)],
                        inc |-> 0, crashed |-> TRUE]
                  ELSE LET new_node == Len(h) + 1
                           h2 == materialize(h, current_node, bucket,
                                             IF current_level = 0 THEN init_leaf ELSE new_internal)
                       IN  allocate_at_loop(h2, new_node, ss, i2, next_level, mallocs - 1)
             ELSE allocate_at_loop(h, node.branches[bucket], ss, i2, next_level, mallocs)

\* the call before a deallocate, kept when it was allocate()
NoCall == [op |-> "none", ret |-> 0, pre_count |-> 0]
PrevCall ==
    IF last.op = "allocate"
    THEN [op |-> "allocate", ret |-> last.ret, pre_count |-> last.pre_count]
    ELSE NoCall

\* what a call records for the properties: the operation, its argument, its
\* result, the observable state at the call and the call before it
Call(op, idx, ret) ==
    [op |-> op, idx |-> idx, ret |-> ret,
     pre_count |-> allocated_resources, pre_cap |-> current_max_size,
     pre_levels |-> levels, pre_alloc |-> AllocatedSet, pre_nodes |-> Len(heap),
     prev |-> IF op = "deallocate" THEN PrevCall ELSE NoCall]

\* lines 203-241 of allocate_at: the descent from the root and the return
allocate_at_descend(idx, mallocs) ==
    LET r == allocate_at_loop(heap, root, current_max_size, idx, levels, mallocs)
    IN  /\ heap' = r.heap
        /\ allocated_resources' = U64(allocated_resources + r.inc)
        /\ pc' = IF r.crashed THEN "crashed" ELSE "idle"
        /\ UNCHANGED <<root, levels, current_max_size, stack, freed>>

\* allocate_at(idx) when idx < current_max_size: no growth
allocate_at(idx) ==
    /\ pc = "idle"
    /\ allocated_resources < MaxAllocated
    /\ ~(idx >= current_max_size)
    /\ \E mallocs \in 0 .. (levels + 1) : allocate_at_descend(idx, mallocs)
    /\ last' = Call("allocate_at", idx, 0)

\* allocate_at(idx) when idx >= current_max_size: enters move_max_size(idx)
allocate_at_grow(idx) ==
    /\ pc = "idle"
    /\ allocated_resources < MaxAllocated
    /\ idx >= current_max_size
    /\ pc' = "move_max_size"
    /\ last' = Call("allocate_at", idx, 0)
    /\ UNCHANGED <<heap, root, levels, allocated_resources, current_max_size, stack, freed>>

\* the loop condition of move_max_size: while (current_max_size <= idx)
move_max_size_cond(cap, idx) == cap <= idx

\* one iteration of the loop of move_max_size; malloc may return a null
\* pointer, which the code dereferences
move_max_size ==
    /\ pc = "move_max_size"
    /\ levels < MaxLevels
    /\ move_max_size_cond(current_max_size, TWord(last.idx))
    /\ \E ok \in BOOLEAN :
         IF ok
         THEN /\ heap' = Append(heap, new_root(root, heap[root].unset_branches))
              /\ root' = Len(heap) + 1
              /\ current_max_size' = U64(current_max_size * branching_factor)
              /\ levels' = U64(levels + 1)
              /\ pc' = "move_max_size"
         ELSE /\ pc' = "crashed"
              /\ UNCHANGED <<heap, root, current_max_size, levels>>
    /\ UNCHANGED <<allocated_resources, last, stack, freed>>

\* move_max_size returns and allocate_at goes on with its descent
move_max_size_return ==
    /\ pc = "move_max_size"
    /\ ~move_max_size_cond(current_max_size, TWord(last.idx))
    /\ \E mallocs \in 0 .. (levels + 1) : allocate_at_descend(last.idx, mallocs)
    /\ UNCHANGED last

\* ---------------------------------------------------- allocate, deallocate
\* allocate() { return T(); }
allocate_result == 0
allocate ==
    /\ pc = "idle"
    /\ last' = Call("allocate", 0, allocate_result)
    /\ UNCHANGED <<heap, root, levels, allocated_resources, current_max_size, pc, stack, freed>>

\* deallocate(idx) { }
deallocate(idx) ==
    /\ pc = "idle"
    /\ last' = Call("deallocate", idx, 0)
    /\ UNCHANGED <<heap, root, levels, allocated_resources, current_max_size, pc, stack, freed>>

\* a call of is_allocated(idx) (const)
is_allocated_call(idx) ==
    /\ pc = "idle"
    /\ last' = Call("is_allocated", idx, IF is_allocated(idx) THEN 1 ELSE 0)
    /\ UNCHANGED <<heap, root, levels, allocated_resources, current_max_size, pc, stack, freed>>

\* ---------------------------------------------------------------- ~tree_t
\* the record of a destructor run
DestructorCall ==
    [op |-> "~tree_t", idx |-> 0, ret |-> 0, pre_count |-> 0,
     pre_cap |-> 0, pre_levels |-> 0, pre_alloc |-> {}, pre_nodes |-> 0,
     prev |-> NoCall]

\* node->is_leaf = true: an internal node whose children are on the stack
\* is freed when it is seen again
destructor_mark_skip(node) == node
destructor_mark(node) == [node EXCEPT !.is_leaf = TRUE]

\* the children the for loop pushes: branches[i] for every bit i set in
\* allocated_branches, in increasing i
destructor_pushes(node) ==
    LET set == SelectSeq([k \in 1 .. branching_factor |-> k - 1],
                         LAMBDA i : test_bit(node.allocated_branches, i))
    IN  [k \in 1 .. Len(set) |-> node.branches[set[k]]]

\* ~tree_t() starts: stack.push_back(root)
destructor_begin ==
    /\ pc = "idle"
    /\ pc' = "~tree_t"
    /\ stack' = <<root>>
    /\ freed' = <<>>
    /\ last' = DestructorCall
    /\ UNCHANGED <<heap, root, levels, allocated_resources, current_max_size>>

\* one iteration of while (!stack.empty())
destructor_step ==
    /\ pc = "~tree_t"
    /\ stack # <<>>
    /\ LET node == stack[Len(stack)]
       IN  IF heap[node].is_leaf
           THEN /\ freed' = Append(freed, node)
                /\ stack' = SubSeq(stack, 1, Len(stack) - 1)
                /\ UNCHANGED heap
           ELSE /\ heap' = [heap EXCEPT ![node] = destructor_mark(@)]
                /\ stack' = stack \o destructor_pushes(heap[node])
                /\ UNCHANGED freed
    /\ UNCHANGED <<root, levels, allocated_resources, current_max_size, pc, last>>

\* the loop ends with an empty stack
destructor_end ==
    /\ pc = "~tree_t"
    /\ stack = <<>>
    /\ pc' = "destroyed"
    /\ UNCHANGED <<heap, root, levels, allocated_resources, current_max_size, last, stack, freed>>

\* ------------------------------------------------------------------- spec
\* tree_t(): the root is one leaf
Init ==
    /\ heap = <<init_leaf>>
    /\ root = 1
    /\ levels = 0
    /\ allocated_resources = 0
    /\ current_max_size = U64(branching_factor * bits_per_word)
    /\ pc = "idle"
    /\ last = [op |-> "tree_t", idx |-> 0, ret |-> 0, pre_count |-> 0,
               pre_cap |-> 0, pre_levels |-> 0, pre_alloc |-> {}, pre_nodes |-> 0,
               prev |-> NoCall]
    /\ stack = <<>>
    /\ freed = <<>>

Next ==
    \/ \E idx \in Inputs : allocate_at(idx)
    \/ \E idx \in Inputs : allocate_at_grow(idx)
    \/ move_max_size
    \/ move_max_size_return
    \/ allocate
    \/ \E idx \in Inputs : deallocate(idx)
    \/ \E idx \in Inputs : is_allocated_call(idx)
    \/ destructor_begin
    \/ destructor_step
    \/ destructor_end

Spec == Init /\ [][Next]_vars

\* the destructor's loop keeps running once entered
FairSpec == Spec /\ WF_vars(destructor_step) /\ WF_vars(destructor_end)
\* ================================================================= claims
Returned(op) == pc = "idle" /\ last.op = op
\* the number of root wraps the current or last call has made
Wraps == levels - last.pre_levels
\* the smallest index outside S
SmallestFree(S) == CHOOSE i \in Indices : i \notin S /\ \A j \in 0 .. (i - 1) : j \in S

\* C1: when allocate_at(idx) has returned, is_allocated(idx) is true, whether
\* or not the call grew the tree or materialized nodes.
C1_AllocateAtThenAllocated ==
    Returned("allocate_at") => is_allocated(last.idx)

\* a call that wrapped the root and materialized nodes on the way down
C1_Witness ==
    /\ Returned("allocate_at")
    /\ last.idx >= last.pre_cap
    /\ Wraps = 2
    /\ Len(heap) > last.pre_nodes + Wraps
    /\ is_allocated(last.idx)

\* C2: the index allocate() returns is allocated right after the call.
C2_AllocateThenAllocated ==
    Returned("allocate") => is_allocated(last.ret)

\* C3: after deallocate(idx), is_allocated(idx) is false, for every idx.
C3_DeallocateThenFree ==
    Returned("deallocate") => ~is_allocated(last.idx)

\* C4: allocate() returns the smallest index that was free just before the
\* call (so successive calls count up from 0 without repeats, and a freed
\* lowest slot is handed out again).
C4_AllocateSmallestFree ==
    Returned("allocate") => last.ret = SmallestFree(last.pre_alloc)

\* C5: allocate_at on an allocated index changes nothing observable (count,
\* capacity, levels, nodes, the status of every index); on a free index it
\* raises the count by exactly 1, so two calls in a row add 1, not 2.
C5_AllocateAtIdempotent ==
    Returned("allocate_at") =>
        IF last.idx \in last.pre_alloc
        THEN /\ allocated_resources = last.pre_count
             /\ current_max_size = last.pre_cap
             /\ levels = last.pre_levels
             /\ Len(heap) = last.pre_nodes
             /\ AllocatedSet = last.pre_alloc
        ELSE allocated_resources = last.pre_count + 1

\* a second allocate_at on an index that is already allocated, in a tree
\* that has grown
C5_Witness ==
    /\ Returned("allocate_at")
    /\ last.idx \in last.pre_alloc
    /\ last.pre_levels > 0
    /\ last.pre_count >= 2

\* C6: a fresh tree has capacity B^2, no levels and no allocation; in every
\* state the capacity is B^(levels+2); no step decreases the capacity.
C6_CapacityPowerMonotone ==
    /\ (current_max_size = Pow(branching_factor, 2) /\ levels = 0 /\ allocated_resources = 0)
    /\ [](current_max_size = Pow(branching_factor, levels + 2))
    /\ [][current_max_size' >= current_max_size]_vars

\* C7: allocate_at(idx) with idx >= capacity wraps the root the least number
\* n of times that makes idx fit: throughout the call the capacity is the
\* old one times B^n and never more than one wrap ahead of idx, and on return
\* idx < capacity and the count is one higher; with idx < capacity the call
\* leaves capacity and levels alone.
C7_MinimalGrowth ==
    (last.op = "allocate_at" /\ pc \in {"idle", "move_max_size"}) =>
        IF last.idx >= last.pre_cap
        THEN /\ current_max_size = last.pre_cap * Pow(branching_factor, Wraps)
             /\ Wraps > 0 => last.pre_cap * Pow(branching_factor, Wraps - 1) <= last.idx
             /\ pc = "idle" => /\ Wraps >= 1
                               /\ last.idx < current_max_size
                               /\ allocated_resources = last.pre_count + 1
        ELSE current_max_size = last.pre_cap /\ levels = last.pre_levels

\* C8: allocate() on a tree whose every index below the capacity is taken
\* grows the tree by one level and returns the old capacity.
C8_AllocateGrowsFullTree ==
    (Returned("allocate") /\ \A i \in 0 .. (last.pre_cap - 1) : i \in last.pre_alloc) =>
        /\ current_max_size = last.pre_cap * branching_factor
        /\ levels = last.pre_levels + 1
        /\ last.ret = last.pre_cap

\* C9: idx = allocate() followed by deallocate(idx) puts the count back to
\* what it was before allocate() and leaves idx free.
C9_AllocateDeallocateRoundTrip ==
    (Returned("deallocate") /\ last.prev.op = "allocate" /\ last.idx = last.prev.ret) =>
        /\ allocated_resources = last.prev.pre_count
        /\ ~is_allocated(last.idx)

\* C10: the growth loop of allocate_at never wraps the capacity counter: a
\* step of the loop never makes the capacity 0 or smaller than it was, so
\* the loop can always exit with idx < capacity.
C10_GrowthNeverWraps ==
    [][pc = "move_max_size" =>
         /\ current_max_size' # 0
         /\ current_max_size' >= current_max_size]_vars
\* ------------------------------------------------- where an index lives
\* the k-th digit of idx in base branching_factor, the most significant of
\* the levels + 2 digits being digit 0
Digit(idx, k) == (idx \div Pow(branching_factor, levels + 1 - k)) % branching_factor

\* follows the digits of idx from the node at depth k: the leaf, word and bit
\* that hold idx, or the unmaterialized branch the walk stops at
RECURSIVE LocateFrom(_, _, _)
LocateFrom(node, idx, k) ==
    IF heap[node].is_leaf
    THEN [kind |-> "leaf", node |-> node, depth |-> k, word |-> Digit(idx, k),
          bit |-> idx % Pow(branching_factor, levels + 1 - k)]
    ELSE IF ~test_bit(heap[node].allocated_branches, Digit(idx, k))
         THEN [kind |-> "unmaterialized", node |-> node, depth |-> k,
               word |-> Digit(idx, k), bit |-> 0]
         ELSE LocateFrom(heap[node].branches[Digit(idx, k)], idx, k + 1)

Locate(idx) == LocateFrom(root, idx, 0)

\* the tree the callers see
TreeState == <<heap, root, levels, allocated_resources, current_max_size>>

\* C11: is_allocated(idx) changes nothing of the tree; it returns false when
\* idx >= capacity or a branch on the way to idx is unmaterialized, and the
\* negation of the leaf bit of idx otherwise.
C11_IsAllocatedReadOnly ==
    /\ [](Returned("is_allocated") =>
            LET loc == Locate(last.idx)
            IN  (last.ret = 1) <=>
                    /\ last.idx < current_max_size
                    /\ loc.kind = "leaf"
                    /\ ~test_bit(heap[loc.node].bits[loc.word], loc.bit))
    /\ [][(pc = "idle" /\ pc' = "idle" /\ last'.op = "is_allocated") =>
            TreeState' = TreeState]_vars

\* is_allocated asked, in a grown tree holding allocations, about an index
\* below the capacity whose branch was never materialized
C11_Witness ==
    /\ Returned("is_allocated")
    /\ levels >= 1
    /\ allocated_resources >= 1
    /\ last.idx < current_max_size
    /\ Locate(last.idx).kind = "unmaterialized"
    /\ last.ret = 0
\* the nodes the current or last call has created
NewNodes == (last.pre_nodes + 1) .. Len(heap)

\* the first n nodes of the chain root, root->branches[0], ...
RECURSIVE Chain(_, _)
Chain(node, n) == IF n <= 0 THEN {} ELSE {node} \cup Chain(heap[node].branches[0], n - 1)

\* the roots the current or last call has wrapped around the old tree
WrapRoots == Chain(root, Wraps)

\* the nodes on the way from the node at depth k to idx
RECURSIVE PathFrom(_, _, _)
PathFrom(node, idx, k) ==
    {node} \cup
    IF heap[node].is_leaf \/ ~test_bit(heap[node].allocated_branches, Digit(idx, k))
       \/ heap[node].branches[Digit(idx, k)] = Null
    THEN {}
    ELSE PathFrom(heap[node].branches[Digit(idx, k)], idx, k + 1)

\* the root-to-leaf path of idx, when the capacity covers idx
PathNodes(idx) == IF idx < current_max_size THEN PathFrom(root, idx, 0) ELSE {}

\* C12 as claimed: allocate_at(idx) creates at most one root per wrap and
\* one node per level of the descent, and every node it creates lies on the
\* root-to-leaf path of idx.
C12_CreatesOnlyOnPath ==
    Returned("allocate_at") =>
        /\ Len(heap) - last.pre_nodes <= Wraps + levels + 1
        /\ NewNodes \subseteq PathNodes(last.idx)

\* C12 as amended: allocate_at(idx) creates one root per wrap and at most
\* one node per level of the descent; every node it creates is one of the
\* new roots (the chain from the root down to the old root) or lies on the
\* root-to-leaf path of idx.  Also during growth and when malloc fails.
C12_SparseMaterialization ==
    (last.op = "allocate_at" /\ pc \in {"idle", "move_max_size", "crashed"}) =>
        /\ Cardinality(WrapRoots) = Wraps
        /\ WrapRoots \subseteq NewNodes
        /\ Len(heap) - last.pre_nodes <= Wraps + levels + 1
        /\ NewNodes \subseteq (WrapRoots \cup PathNodes(last.idx))

\* a call that wrapped the root twice and made every node of its descent
C12_Witness ==
    /\ Returned("allocate_at")
    /\ Wraps = 2
    /\ Len(heap) - last.pre_nodes = Wraps + levels + 1
    /\ allocated_resources >= 2
\* the nodes of the heap
Nodes == 1 .. Len(heap)

\* a branch marked materialized that holds a null pointer
MissingNode(n, b) ==
    /\ ~heap[n].is_leaf
    /\ test_bit(heap[n].allocated_branches, b)
    /\ heap[n].branches[b] = Null

\* C13: when malloc gives no node during the growth or the descent of
\* allocate_at, the tree is exactly as it was before the call (same nodes,
\* capacity, levels and count) and no materialized branch lacks its node.
C13_FailureLeavesTreeIntact ==
    (last.op = "allocate_at" /\ pc = "crashed") =>
        /\ Len(heap) = last.pre_nodes
        /\ current_max_size = last.pre_cap
        /\ levels = last.pre_levels
        /\ allocated_resources = last.pre_count
        /\ \A n \in Nodes : \A b \in Branches : ~MissingNode(n, b)
\* the subtree of node n still holds a free index: a leaf with a set bit, an
\* internal node with an unmaterialized branch or a child that holds one
RECURSIVE HasFree(_)
HasFree(n) ==
    IF heap[n].is_leaf
    THEN \E i \in Branches : heap[n].bits[i] # 0
    ELSE \E i \in Branches :
            \/ ~test_bit(heap[n].allocated_branches, i)
            \/ HasFree(heap[n].branches[i])

\* branch i of node n (data word i of a leaf) still holds a free index
BranchFree(n, i) ==
    IF heap[n].is_leaf
    THEN heap[n].bits[i] # 0
    ELSE \/ ~test_bit(heap[n].allocated_branches, i)
         \/ HasFree(heap[n].branches[i])

\* C14: after every operation, in every node, the free-summary bit of branch
\* i is 1 exactly when the subtree (the data word, in a leaf) at branch i
\* holds an unallocated index.
C14_FreeSummaryExact ==
    pc = "idle" =>
        \A n \in Nodes : \A i \in Branches :
            /\ heap[n].unset_branches # Undef
            /\ test_bit(heap[n].unset_branches, i) <=> BranchFree(n, i)

\* every leaf below the node at depth k sits at depth levels
RECURSIVE LeavesAtLevels(_, _)
LeavesAtLevels(n, k) ==
    IF heap[n].is_leaf
    THEN k = levels
    ELSE \A i \in Branches :
            test_bit(heap[n].allocated_branches, i) =>
                LeavesAtLevels(heap[n].branches[i], k + 1)

\* C15: every root-to-leaf path passes through exactly levels internal
\* nodes: every leaf sits at depth levels, and the children allocate_at
\* makes are leaves exactly at that depth.
C15_UniformDepth ==
    pc = "idle" => LeavesAtLevels(root, 0)

\* C16: the root a growth wrap makes has branch 0, the old root, as its only
\* materialized branch; its summary has bits 1..B-1 set and bit 0 set exactly
\* when the old root still has a free slot, that is when the old root's
\* summary word is nonzero.
C16_WrapSummary ==
    (last.op = "allocate_at" /\ pc = "move_max_size" /\ Wraps >= 1) =>
        LET new == heap[root]
            old == new.branches[0]
        IN  /\ ~new.is_leaf
            /\ new.allocated_branches = 1
            /\ old \in Nodes
            /\ \A i \in 1 .. (branching_factor - 1) : test_bit(new.unset_branches, i)
            /\ test_bit(new.unset_branches, 0) <=> (heap[old].unset_branches # 0)
            /\ test_bit(new.unset_branches, 0) <=> HasFree(old)

\* the materialized branches of node n
Materialized(n) == {b \in Branches : test_bit(heap[n].allocated_branches, b)}

\* C17: an internal node made by the descent of allocate_at has a defined
\* free-summary of all ones and no child but the one the descent went on to
\* make; the words the operations read (the materialized bitmap of internal
\* nodes, the summary of the root) are never undefined.
C17_InternalNodesInitialized ==
    pc = "idle" =>
        /\ \A n \in Nodes : ~heap[n].is_leaf => heap[n].allocated_branches # Undef
        /\ heap[root].unset_branches # Undef
        /\ last.op = "allocate_at" =>
             \A n \in NewNodes \ WrapRoots :
                 ~heap[n].is_leaf =>
                     /\ Cardinality(Materialized(n)) = 1
                     /\ heap[n].unset_branches = AllOnes
\* the entries of a sequence are pairwise different
NoRepeat(q) == \A i, j \in 1 .. Len(q) : i # j => q[i] # q[j]
Range(q) == {q[i] : i \in 1 .. Len(q)}

\* C18: teardown from any tree ends, and frees every materialized node
\* exactly once: no node is freed twice, nothing on the stack is a freed
\* node or an unmaterialized slot, and at the end every node has been freed.
C18_TeardownFreesEachNodeOnce ==
    /\ [](pc \in {"~tree_t", "destroyed"} =>
            /\ NoRepeat(freed)
            /\ NoRepeat(stack)
            /\ Range(stack) \subseteq Nodes
            /\ Range(stack) \cap Range(freed) = {}
            /\ Range(freed) \subseteq Nodes)
    /\ [](pc = "destroyed" => (Range(freed) = Nodes /\ stack = <<>>))
    /\ ((pc = "~tree_t") ~> (pc = "destroyed"))

\* a finished teardown of a tree that grew twice and holds fresh paths
C18_Witness ==
    /\ pc = "destroyed"
    /\ levels = 2
    /\ Len(freed) >= 7
\* C19: after any sequence of calls the allocated count is the number of
\* indices below the capacity that is_allocated reports, and is not negative.
C19_CountMatchesAllocated ==
    pc = "idle" =>
        /\ allocated_resources >= 0
        /\ allocated_resources =
               Cardinality({i \in 0 .. (current_max_size - 1) : is_allocated(i)})

\* a grown tree with several allocations, after a deallocate of one of them
C19_Witness ==
    /\ Returned("deallocate")
    /\ last.idx \in AllocatedSet
    /\ levels = 2
    /\ allocated_resources >= 3

\* the leaf bit that holds idx
BitOf(idx) == LET loc == Locate(idx) IN <<loc.node, loc.word, loc.bit>>
\* the indices below the capacity whose leaf is materialized
LeafIndices == {i \in 0 .. (current_max_size - 1) : Locate(i).kind = "leaf"}

\* C20: allocate_at(idx) changes the status of idx only, also when it wraps
\* roots or materializes nodes (the indices that become addressable are free
\* but for idx); two different indices never share a leaf bit.
C20_OnlyTargetChanges ==
    /\ Returned("allocate_at") =>
           (AllocatedSet \ {last.idx}) = (last.pre_alloc \ {last.idx})
    /\ pc = "idle" =>
           Cardinality({BitOf(i) : i \in LeafIndices}) = Cardinality(LeafIndices)

\* a call on a free index that wrapped the root and materialized nodes in a
\* tree that already held allocations
C20_Witness ==
    /\ Returned("allocate_at")
    /\ last.idx \notin last.pre_alloc
    /\ Wraps >= 1
    /\ Len(heap) > last.pre_nodes + Wraps
    /\ last.pre_count >= 2
====
